---- MODULE Spec2Model ----
(***************************************************************************)
(* Model of find-duplicates.py: the three-stage duplicate finder           *)
(* (size -> first 1024 bytes -> full content) and its command line.        *)
(*                                                                         *)
(* A file's content is a byte string kept in run-length form: a sequence   *)
(* of runs <<byte, count>>, count > 0, adjacent runs of different bytes.   *)
(* The form is canonical (one value per byte string), so the real read     *)
(* sizes 1024 and 8192 are kept while the values stay small.               *)
(*                                                                         *)
(* Content does not change during a run; a file can lose its read          *)
(* permission or be deleted at any moment of a run (action Fault).         *)
(* SHA-1 is modelled as collision free (Sha1HexDigest is injective).       *)
(***************************************************************************)
EXTENDS Integers, Sequences, FiniteSets, TLC

(* ------------------------------ bounds -------------------------------- *)

\* How many times the environment deletes or protects a file during a run.
MaxFaults == 1

(* ------------------------- byte strings (RLE) ------------------------- *)

RECURSIVE ByteLen(_)
ByteLen(data) ==
    IF data = <<>> THEN 0 ELSE data[1][2] + ByteLen(Tail(data))

\* The first n bytes of data.
RECURSIVE TakeBytes(_, _)
TakeBytes(data, n) ==
    IF n <= 0 \/ data = <<>> THEN <<>>
    ELSE IF data[1][2] >= n THEN << <<data[1][1], n>> >>
    ELSE <<data[1]>> \o TakeBytes(Tail(data), n - data[1][2])

\* data without its first n bytes.
RECURSIVE DropBytes(_, _)
DropBytes(data, n) ==
    IF n <= 0 \/ data = <<>> THEN data
    ELSE IF data[1][2] > n THEN << <<data[1][1], data[1][2] - n>> >> \o Tail(data)
    ELSE DropBytes(Tail(data), n - data[1][2])

\* Concatenation of two byte strings.
CatBytes(x, y) ==
    IF x = <<>> THEN y
    ELSE IF y = <<>> THEN x
    ELSE IF x[Len(x)][1] = y[1][1]
         THEN SubSeq(x, 1, Len(x) - 1)
              \o << <<y[1][1], x[Len(x)][2] + y[1][2]>> >>
              \o Tail(y)
         ELSE x \o y

\* f.read(n) of a file object at offset pos.
ReadAt(data, pos, n) == TakeBytes(DropBytes(data, pos), n)

(* ----------------------------- file system ---------------------------- *)

\* A path is the sequence of its components; os.path.join appends one.
PathJoin(root, name) == Append(root, name)

Dirs == { <<"d">>, <<"d", "s">>, <<"x">> }

\* os.walk's view of one directory: file names and subdirectory names.
FileNamesIn(dir) ==
    IF dir = <<"d">> THEN <<"a", "b">>
    ELSE IF dir = <<"d", "s">> THEN <<"c", "e">>
    ELSE <<>>

SubdirNamesIn(dir) ==
    IF dir = <<"d">> THEN <<"s">> ELSE <<>>

Files == { PathJoin(d, FileNamesIn(d)[k]) : <<d, k>> \in
             { <<d, k>> \in Dirs \X (1..2) : k <= Len(FileNamesIn(d)) } }

Empty == <<>>
P1    == << <<0, 1023>>, <<1, 1>> >>
P2    == << <<0, 1024>> >>
B1    == << <<0, 8193>> >>

Contents == { Empty, P1, P2, B1 }

\* The command lines tried: no root, an empty tree, one tree with a
\* subdirectory, a root given twice.
Argvs ==
    { <<>>,
      << <<"x">> >>,
      << <<"d">> >>,
      << <<"d", "s">>, <<"d", "s">> >> }

VARIABLES
    argv,        \* sys.argv[1:]
    content,     \* file -> bytes
    fstate,      \* file -> "ok" | "noperm" | "gone"
    faults,      \* number of Fault steps so far
    pc,          \* position of the program
    i,           \* index of the running for loop
    enumerated,  \* the list built by check_for_duplicates' first loop
    files,       \* the variable files of check_for_duplicates
    files_by_size,   \* the dict of filter_files_by_size
    files_by_1k,     \* the dict of filter_files_by_first_1k_bytes
    files_by_hash,   \* the dict of group_files_by_full_hash
    duplicates,  \* the list returned by group_files_by_full_hash
    out,         \* lines written to standard output
    log,         \* calls made so far, in order
    raised,      \* uncaught exception, "none" when there is none
    status       \* exit status, None while running

vars == << argv, content, fstate, faults, pc, i, enumerated, files,
           files_by_size, files_by_1k, files_by_hash, duplicates, out, log,
           raised, status >>

\* Python's None, as returned by get_file_size; no size is negative.
None == -1

(* ------------------------------ functions ----------------------------- *)

\* os.walk(top): one <<root, filenames>> entry per directory, top-down.
\* A deleted file is not listed; a top that is no directory yields nothing.
RECURSIVE Walk(_)
RECURSIVE WalkSubdirs(_, _)
Walk(top) ==
    IF top \notin Dirs THEN <<>>
    ELSE << <<top, SelectSeq(FileNamesIn(top),
                             LAMBDA n : fstate[PathJoin(top, n)] # "gone")>> >>
         \o WalkSubdirs(top, SubdirNamesIn(top))
WalkSubdirs(top, names) ==
    IF names = <<>> THEN <<>>
    ELSE Walk(PathJoin(top, Head(names))) \o WalkSubdirs(top, Tail(names))

RECURSIVE JoinAll(_)
JoinAll(entries) ==
    IF entries = <<>> THEN <<>>
    ELSE [k \in 1..Len(Head(entries)[2]) |->
             PathJoin(Head(entries)[1], Head(entries)[2][k])]
         \o JoinAll(Tail(entries))

list_files(path) == JoinAll(Walk(path))

\* os.path.getsize stats the file: it needs the file to exist, not to be
\* readable.  OSError is caught and None returned.
get_file_size(file_path) ==
    IF fstate[file_path] = "gone" THEN None ELSE ByteLen(content[file_path])

\* open(file_path, "rb") raises OSError unless the file exists and is readable.
OpenFails(file_path) == fstate[file_path] # "ok"

\* hashlib.sha1().update(...).hexdigest() of the bytes fed to it.
Sha1HexDigest(data) == <<"sha1", data>>

PrefixLen == 1024
ChunkLen == 8192

\* Mutant: the read stops one byte short, f.read(1023).
hash_first_1k_bytes_short(file_path) ==
    Sha1HexDigest(CatBytes(<<>>, ReadAt(content[file_path], 0, PrefixLen - 1)))

hash_first_1k_bytes(file_path) ==
    Sha1HexDigest(CatBytes(<<>>, ReadAt(content[file_path], 0, PrefixLen)))

\* iter(lambda: f.read(8192), b""): update with every chunk up to the first
\* empty one.
RECURSIVE HashChunks(_, _, _)
HashChunks(data, pos, fed) ==
    IF ReadAt(data, pos, ChunkLen) = <<>> THEN fed
    ELSE HashChunks(data, pos + ChunkLen,
                    CatBytes(fed, ReadAt(data, pos, ChunkLen)))

\* Mutant: only the first 1024 bytes are fed, as in hash_first_1k_bytes.
hash_file_prefix_only(file_path) ==
    Sha1HexDigest(CatBytes(<<>>, ReadAt(content[file_path], 0, PrefixLen)))

hash_file(file_path) == Sha1HexDigest(HashChunks(content[file_path], 0, <<>>))

\* Python's truth value of get_file_size's result: None and 0 are false.
Truthy(file_size) == file_size # None /\ file_size # 0

\* Mutant: d.setdefault(key, []).insert(0, file_path)
SetDefaultPrepend(d, key, file_path) ==
    IF \E j \in 1..Len(d) : d[j].key = key
    THEN [j \in 1..Len(d) |->
             IF d[j].key = key
             THEN [d[j] EXCEPT !.paths = <<file_path>> \o @]
             ELSE d[j]]
    ELSE Append(d, [key |-> key, paths |-> <<file_path>>])

\* A dict is the sequence of its items in insertion order.
\* d.setdefault(key, []).append(file_path)
SetDefaultAppend(d, key, file_path) ==
    IF \E j \in 1..Len(d) : d[j].key = key
    THEN [j \in 1..Len(d) |->
             IF d[j].key = key
             THEN [d[j] EXCEPT !.paths = Append(@, file_path)]
             ELSE d[j]]
    ELSE Append(d, [key |-> key, paths |-> <<file_path>>])

\* Mutant: if len(paths) > 0
RECURSIVE ExtendDuplicates_KeepAll(_)
ExtendDuplicates_KeepAll(d) ==
    IF d = <<>> THEN <<>>
    ELSE Head(d).paths \o ExtendDuplicates_KeepAll(Tail(d))

\* for paths in d.values(): if len(paths) > 1: duplicates.extend(paths)
RECURSIVE ExtendDuplicates(_)
ExtendDuplicates(d) ==
    IF d = <<>> THEN <<>>
    ELSE (IF Len(Head(d).paths) > 1 THEN Head(d).paths ELSE <<>>)
         \o ExtendDuplicates(Tail(d))

\* Mutant: if len(paths) > 0
RECURSIVE DuplicateGroups_KeepSingletons(_)
DuplicateGroups_KeepSingletons(d) ==
    IF d = <<>> THEN <<>>
    ELSE <<Head(d).paths>> \o DuplicateGroups_KeepSingletons(Tail(d))

\* [paths for paths in d.values() if len(paths) > 1]
RECURSIVE DuplicateGroups(_)
DuplicateGroups(d) ==
    IF d = <<>> THEN <<>>
    ELSE (IF Len(Head(d).paths) > 1 THEN <<Head(d).paths>> ELSE <<>>)
         \o DuplicateGroups(Tail(d))

\* file_size_string: the unit and the value num_bytes / 1000 ** exponent, kept
\* as the fraction <<num_bytes, 1000 ** exponent>>; exponent is
\* int(math.log(num_bytes, 1000)), taken here as the exact integer logarithm.
sizes == <<"B", "KB", "MB", "GB", "TB", "PB", "EB", "ZB", "YB">>

RECURSIVE Log1000(_)
Log1000(n) == IF n < 1000 THEN 0 ELSE 1 + Log1000(n \div 1000)

file_size_string(num_bytes) ==
    IF num_bytes < 1000
    THEN <<num_bytes, 1, "B">>
    ELSE <<num_bytes, 1000 ^ Log1000(num_bytes), sizes[Log1000(num_bytes) + 1]>>

Call(op, caller, path) == [op |-> op, caller |-> caller, path |-> path]

(* ------------------------------- actions ------------------------------ *)

Init ==
    /\ argv \in Argvs
    /\ content \in [Files -> Contents]
    /\ fstate = [f \in Files |-> "ok"]
    /\ faults = 0
    /\ pc = "main"
    /\ i = 1
    /\ enumerated = <<>>
    /\ files = <<>>
    /\ files_by_size = <<>>
    /\ files_by_1k = <<>>
    /\ files_by_hash = <<>>
    /\ duplicates = <<>>
    /\ out = <<>>
    /\ log = <<>>
    /\ raised = "none"
    /\ status = None

\* The environment: a file is deleted, or loses its read permission.
Fault ==
    /\ pc # "exit"
    /\ faults < MaxFaults
    /\ \E f \in Files, k \in {"noperm", "gone"} :
          /\ fstate[f] # "gone"
          /\ fstate[f] # k
          /\ fstate' = [fstate EXCEPT ![f] = k]
    /\ faults' = faults + 1
    /\ UNCHANGED << argv, content, pc, i, enumerated, files, files_by_size,
                    files_by_1k, files_by_hash, duplicates, out, log, raised,
                    status >>

\* main: the usage error, or the call of check_for_duplicates.
Main ==
    /\ pc = "main"
    /\ IF Len(argv) + 1 < 2
       THEN /\ out' = Append(out, <<"Usage: find_duplicates.py <path> [<path> ...]">>)
            /\ log' = Append(log, Call("print", "main", <<>>))
            /\ status' = 1
            /\ pc' = "exit"
       ELSE /\ pc' = "list"
            /\ UNCHANGED << out, log, status >>
    /\ UNCHANGED << argv, content, fstate, faults, i, enumerated, files,
                    files_by_size, files_by_1k, files_by_hash, duplicates,
                    raised >>

\* check_for_duplicates, first loop: files.extend(list_files(path)).
ListStep ==
    /\ pc = "list"
    /\ i <= Len(argv)
    /\ files' = files \o list_files(argv[i])
    /\ enumerated' = files'
    /\ i' = i + 1
    /\ UNCHANGED << argv, content, fstate, faults, pc, files_by_size,
                    files_by_1k, files_by_hash, duplicates, out, log, raised,
                    status >>

\* The first loop is over: filter_files_by_size(files) is called.
ListDone ==
    /\ pc = "list"
    /\ i > Len(argv)
    /\ pc' = "size"
    /\ i' = 1
    /\ UNCHANGED << argv, content, fstate, faults, enumerated, files,
                    files_by_size, files_by_1k, files_by_hash, duplicates, out,
                    log, raised, status >>

\* filter_files_by_size, one iteration of the first loop.
SizeStep ==
    /\ pc = "size"
    /\ i <= Len(files)
    /\ log' = Append(log, Call("get_file_size", "filter_files_by_size", files[i]))
    /\ files_by_size' =
          IF Truthy(get_file_size(files[i]))
          THEN SetDefaultAppend(files_by_size, get_file_size(files[i]), files[i])
          ELSE files_by_size
    /\ i' = i + 1
    /\ UNCHANGED << argv, content, fstate, faults, pc, enumerated, files,
                    files_by_1k, files_by_hash, duplicates, out, raised, status >>

\* filter_files_by_size, second loop and return; the result is assigned to
\* files and filter_files_by_first_1k_bytes is called.
SizeDone ==
    /\ pc = "size"
    /\ i > Len(files)
    /\ files' = ExtendDuplicates(files_by_size)
    /\ pc' = "partial"
    /\ i' = 1
    /\ UNCHANGED << argv, content, fstate, faults, enumerated, files_by_size,
                    files_by_1k, files_by_hash, duplicates, out, log, raised,
                    status >>

\* filter_files_by_first_1k_bytes, one iteration of the first loop.  The
\* OSError of open is not caught anywhere: the interpreter exits with 1.
PartialStep ==
    /\ pc = "partial"
    /\ i <= Len(files)
    /\ log' = Append(log, Call("hash_first_1k_bytes",
                               "filter_files_by_first_1k_bytes", files[i]))
    /\ IF OpenFails(files[i])
       THEN /\ raised' = "OSError"
            /\ status' = 1
            /\ pc' = "exit"
            /\ UNCHANGED << i, files_by_1k >>
       ELSE /\ files_by_1k' = SetDefaultAppend(files_by_1k,
                                   hash_first_1k_bytes(files[i]), files[i])
            /\ i' = i + 1
            /\ UNCHANGED << raised, status, pc >>
    /\ UNCHANGED << argv, content, fstate, faults, enumerated, files,
                    files_by_size, files_by_hash, duplicates, out >>

\* filter_files_by_first_1k_bytes, second loop and return; the result is
\* assigned to files and group_files_by_full_hash is called.
PartialDone ==
    /\ pc = "partial"
    /\ i > Len(files)
    /\ files' = ExtendDuplicates(files_by_1k)
    /\ pc' = "full"
    /\ i' = 1
    /\ UNCHANGED << argv, content, fstate, faults, enumerated, files_by_size,
                    files_by_1k, files_by_hash, duplicates, out, log, raised,
                    status >>

\* group_files_by_full_hash, one iteration of the loop.
FullStep ==
    /\ pc = "full"
    /\ i <= Len(files)
    /\ log' = Append(log, Call("hash_file", "group_files_by_full_hash", files[i]))
    /\ IF OpenFails(files[i])
       THEN /\ raised' = "OSError"
            /\ status' = 1
            /\ pc' = "exit"
            /\ UNCHANGED << i, files_by_hash >>
       ELSE /\ files_by_hash' = SetDefaultAppend(files_by_hash,
                                     hash_file(files[i]), files[i])
            /\ i' = i + 1
            /\ UNCHANGED << raised, status, pc >>
    /\ UNCHANGED << argv, content, fstate, faults, enumerated, files,
                    files_by_size, files_by_1k, duplicates, out >>

\* group_files_by_full_hash returns; print_duplicates(duplicates) is called.
FullDone ==
    /\ pc = "full"
    /\ i > Len(files)
    /\ duplicates' = DuplicateGroups(files_by_hash)
    /\ pc' = "print"
    /\ i' = 1
    /\ UNCHANGED << argv, content, fstate, faults, enumerated, files,
                    files_by_size, files_by_1k, files_by_hash, out, log, raised,
                    status >>

\* print_duplicates, one iteration of the outer loop.  file_size_string(None)
\* raises TypeError at num_bytes < 1000, after the first line was printed.
PrintStep ==
    /\ pc = "print"
    /\ i <= Len(duplicates)
    /\ LET group == duplicates[i]
           size == get_file_size(group[1])
           probe == Call("get_file_size", "print_duplicates", group[1])
           line(p) == Call("print", "print_duplicates", p)
       IN IF size = None
          THEN /\ out' = Append(out, <<"Found duplicate files:">>)
               /\ log' = log \o << line(<<>>), probe >>
               /\ raised' = "TypeError"
               /\ status' = 1
               /\ pc' = "exit"
               /\ UNCHANGED i
          ELSE /\ out' = out \o << <<"Found duplicate files:">>,
                                    <<"Size: ", file_size_string(size)>> >>
                             \o group
               /\ log' = log \o << line(<<>>), probe, line(<<>>) >>
                             \o [k \in 1..Len(group) |-> line(group[k])]
               /\ i' = i + 1
               /\ UNCHANGED << raised, status, pc >>
    /\ UNCHANGED << argv, content, fstate, faults, enumerated, files,
                    files_by_size, files_by_1k, files_by_hash, duplicates >>

\* print_duplicates, check_for_duplicates and main return: exit status 0.
PrintDone ==
    /\ pc = "print"
    /\ i > Len(duplicates)
    /\ status' = 0
    /\ pc' = "exit"
    /\ UNCHANGED << argv, content, fstate, faults, i, enumerated, files,
                    files_by_size, files_by_1k, files_by_hash, duplicates, out,
                    log, raised >>

Next ==
    \/ Fault
    \/ Main
    \/ ListStep
    \/ ListDone
    \/ SizeStep
    \/ SizeDone
    \/ PartialStep
    \/ PartialDone
    \/ FullStep
    \/ FullDone
    \/ PrintStep
    \/ PrintDone

Spec == Init /\ [][Next]_vars

TypeOK ==
    /\ pc \in {"main", "list", "size", "partial", "full", "print", "exit"}
    /\ status \in {None, 0, 1}
    /\ faults \in 0..MaxFaults

\* A run on a file system that nothing else touches: no Fault step.
NextQuiet ==
    \/ Main
    \/ ListStep
    \/ ListDone
    \/ SizeStep
    \/ SizeDone
    \/ PartialStep
    \/ PartialDone
    \/ FullStep
    \/ FullDone
    \/ PrintStep
    \/ PrintDone

SpecQuiet == Init /\ [][NextQuiet]_vars

(* ------------------------- vocabulary of the claims ------------------- *)

Range(s) == { s[k] : k \in 1..Len(s) }

Buckets(d) == { d[k].paths : k \in 1..Len(d) }

Groups == Range(duplicates)

SizeOf(f) == ByteLen(content[f])

\* The digest of the whole content, taken in one piece.
Fingerprint(f) == Sha1HexDigest(content[f])

\* The bytes the partial stage is to look at: the first min(1024, length).
Prefix(f) == TakeBytes(content[f], IF SizeOf(f) < 1024 THEN SizeOf(f) ELSE 1024)

Together(A, B, paths) == A \in Range(paths) /\ B \in Range(paths)

\* s can be obtained from t by deleting entries.
RECURSIVE IsSubseq(_, _)
IsSubseq(s, t) ==
    IF s = <<>> THEN TRUE
    ELSE IF t = <<>> THEN FALSE
    ELSE IF Head(s) = Head(t) THEN IsSubseq(Tail(s), Tail(t))
    ELSE IsSubseq(s, Tail(t))

\* Position of the first occurrence of x in s (x occurs in s).
FirstIndex(x, s) == CHOOSE k \in 1..Len(s) : s[k] = x /\ \A j \in 1..(k - 1) : s[j] # x

Calls(op, f) == Cardinality({ k \in 1..Len(log) : log[k].op = op /\ log[k].path = f })

(* -------------------------------- claims ------------------------------ *)

\* C1: when the run is over, any two enumerated files that are readable and
\* have identical content, of any length including 0, are members of one
\* reported group.
C1_Completeness ==
    pc = "exit" /\ Len(argv) > 0 =>
        \A A \in Range(enumerated), B \in Range(enumerated) :
            (A # B /\ fstate[A] = "ok" /\ fstate[B] = "ok"
                   /\ content[A] = content[B])
            => \E g \in Groups : Together(A, B, g)

\* C2: every reported group has at least two entries, the entries of one
\* group have the same fingerprint of their full content, and two different
\* groups have different fingerprints.
C2_GroupsWellFormed ==
    /\ \A g \in Groups :
          /\ Len(g) >= 2
          /\ \A A \in Range(g), B \in Range(g) : Fingerprint(A) = Fingerprint(B)
    /\ \A j \in 1..Len(duplicates), k \in 1..Len(duplicates) :
          j # k => Fingerprint(duplicates[j][1]) # Fingerprint(duplicates[k][1])

\* Two groups were reported, after the full stage told files apart that the
\* partial stage had put in one bucket.
C2_Witness ==
    /\ pc = "exit"
    /\ status = 0
    /\ Len(duplicates) = 2
    /\ \E b \in Buckets(files_by_1k) : Len(b) = 4

\* C3: a file that becomes unreadable is dropped silently: no error reaches
\* the caller, and what is reported was read in full.
C3_UnreadableDropped ==
    /\ raised # "OSError"
    /\ \A g \in Groups : \A f \in Range(g) : Calls("hash_file", f) > 0

\* C4 as stated: two files of different sizes never share a bucket of the
\* size map, of the partial-fingerprint map or of the full-fingerprint map.
C4_NeverTogetherAtAnyStage ==
    \A b \in Buckets(files_by_size) \cup Buckets(files_by_1k)
                \cup Buckets(files_by_hash) :
        \A A \in Range(b) : SizeOf(A) = SizeOf(b[1])

\* C4 amended: two files of different sizes never share a bucket of the size
\* map or of the full-fingerprint map and are never reported in one group;
\* in the partial-fingerprint map they share a bucket only if their first
\* 1024 bytes are equal.
C4_NeverTogetherBySizeOrFull ==
    /\ \A b \in Buckets(files_by_size) \cup Buckets(files_by_hash) \cup Groups :
          \A A \in Range(b) : SizeOf(A) = SizeOf(b[1])
    /\ \A b \in Buckets(files_by_1k) :
          \A A \in Range(b) : SizeOf(A) # SizeOf(b[1]) => Prefix(A) = Prefix(b[1])

\* Files of two sizes went through all three stages: one bucket of the
\* partial stage held both sizes, the full stage reported them apart.
C4_Witness ==
    /\ pc = "exit"
    /\ \E b \in Buckets(files_by_1k) :
          \E A \in Range(b), B \in Range(b) : SizeOf(A) # SizeOf(B)
    /\ \E g \in Groups, h \in Groups : SizeOf(g[1]) # SizeOf(h[1])

\* C5: a file whose size no other enumerated file has, or whose size probe
\* failed, is never handed to hash_first_1k_bytes or hash_file.
C5_SingletonNeverHashed ==
    \A f \in Range(enumerated) :
        (\/ \A o \in Range(enumerated) : o # f => SizeOf(o) # SizeOf(f)
         \/ /\ pc \notin {"main", "list", "size"}
            /\ SizeOf(f) # 0
            /\ \A b \in Buckets(files_by_size) : f \notin Range(b))
        => Calls("hash_first_1k_bytes", f) = 0 /\ Calls("hash_file", f) = 0

\* C6: two files of equal size that differ within the first 1024 bytes are
\* separated by the partial stage, whose key is the digest of exactly the
\* first min(1024, length) bytes, and so never share a bucket of the full
\* stage nor a reported group.
C6_SeparatedByPartialStage ==
    /\ \A k \in 1..Len(files_by_1k) :
          files_by_1k[k].key = Sha1HexDigest(Prefix(files_by_1k[k].paths[1]))
    /\ \A b \in Buckets(files_by_1k) \cup Buckets(files_by_hash) \cup Groups :
          \A A \in Range(b) : SizeOf(A) = SizeOf(b[1]) => Prefix(A) = Prefix(b[1])

\* Two files of one size that differ in byte 1024 only both went through the
\* partial stage, and the full stage has run.
C6_Witness ==
    /\ pc \in {"print", "exit"}
    /\ raised = "none"
    /\ \E A \in Files, B \in Files :
          /\ content[A] = P1 /\ content[B] = P2
          /\ Calls("hash_first_1k_bytes", A) > 0
          /\ Calls("hash_first_1k_bytes", B) > 0
          /\ Calls("hash_file", B) > 0

Usage == << <<"Usage: find_duplicates.py <path> [<path> ...]">> >>

\* C7: without a root path main prints the usage message and exits non-zero
\* without running a stage; with a root path it runs to the end and exits 0,
\* duplicates or not; an empty tree gives no group and status 0.
C7_ExitBehaviour ==
    pc = "exit" =>
        /\ Len(argv) = 0 =>
              /\ status # 0
              /\ out = Usage
              /\ \A k \in 1..Len(log) : log[k].caller = "main"
        /\ Len(argv) > 0 => status = 0
        /\ (Len(argv) > 0 /\ enumerated = <<>>) => duplicates = <<>>

StageOf(call) ==
    IF call.caller = "filter_files_by_size" THEN 1
    ELSE IF call.caller = "filter_files_by_first_1k_bytes" THEN 2
    ELSE IF call.caller = "group_files_by_full_hash" THEN 3
    ELSE 4

CallsOfStage(n) == { k \in 1..Len(log) : StageOf(log[k]) = n }

\* The files that share their key in d with another entry.
Survivors(d) == UNION { Range(b) : b \in { c \in Buckets(d) : Len(c) >= 2 } }

PathsOfStage(n) == { log[k].path : k \in CallsOfStage(n) }

\* C8: the stages are strict barriers, size -> partial -> full -> report:
\* no call of an earlier stage follows a call of a later one, a stage has
\* handled all of its input before the next one starts, and each stage is
\* given only the survivors of the stage before.
C8_StageBarrier ==
    /\ \A m \in 1..(Len(log) - 1) : StageOf(log[m]) <= StageOf(log[m + 1])
    /\ PathsOfStage(1) \subseteq Range(enumerated)
    /\ PathsOfStage(2) \subseteq Survivors(files_by_size)
    /\ PathsOfStage(3) \subseteq Survivors(files_by_1k)
    /\ PathsOfStage(4) \subseteq Survivors(files_by_hash) \cup {<<>>}
    /\ CallsOfStage(2) # {} => Cardinality(CallsOfStage(1)) = Len(enumerated)
    /\ CallsOfStage(3) # {} => Survivors(files_by_size) \subseteq PathsOfStage(2)
    /\ (CallsOfStage(4) # {} /\ Len(argv) > 0)
          => Survivors(files_by_1k) \subseteq PathsOfStage(3)

\* All four stages ran, and the size stage had dropped a file.
C8_Witness ==
    /\ pc = "exit"
    /\ status = 0
    /\ \A n \in 1..4 : CallsOfStage(n) # {}
    /\ Range(enumerated) \ Survivors(files_by_size) # {}

\* C9: inside every reported group (and every bucket of the full stage it is
\* taken from) the files stand in the order of the enumeration; the groups
\* stand in the order in which their first members occur in the list given
\* to the full stage.  (A bucket of the partial stage that mixes sizes is
\* not in the order of the enumeration; no group comes from two sizes.)
C9_OutputOrder ==
    /\ \A b \in Buckets(files_by_hash) \cup Groups : IsSubseq(b, enumerated)
    /\ \A j \in 1..Len(duplicates), k \in 1..Len(duplicates) :
          j < k => FirstIndex(duplicates[j][1], files)
                     < FirstIndex(duplicates[k][1], files)

\* Two groups were reported, the larger files first, and the list given to
\* the full stage was not in the order of the enumeration.
C9_Witness ==
    /\ pc = "exit"
    /\ status = 0
    /\ Len(duplicates) = 2
    /\ SizeOf(duplicates[1][1]) > SizeOf(duplicates[2][1])
    /\ ~IsSubseq(files, enumerated)

\* C10: whatever the roots, the entries of a reported group are pairwise
\* distinct paths and no path is in two groups.
C10_NoSelfDuplicate ==
    /\ \A g \in Groups : \A j \in 1..Len(g), k \in 1..Len(g) : j # k => g[j] # g[k]
    /\ \A j \in 1..Len(duplicates), k \in 1..Len(duplicates) :
          j # k => Range(duplicates[j]) \cap Range(duplicates[k]) = {}

====
